---------------------------- MODULE Spec2Model ----------------------------
(***************************************************************************)
(* A model of jet::TriangleMesh3 (src/src/jet/triangle_mesh3.cpp): the     *)
(* indexed mesh store, the per-face triangle view, the linear-scan         *)
(* queries, the cumulative-area sampler and the OBJ codec.                 *)
(*                                                                         *)
(* Two mesh instances, "a" and "b", live side by side so that set and swap *)
(* have a partner.  Every Array1 member is a value (array1.h:235 holds a   *)
(* std::vector by value), modelled as a TLA+ sequence; element i of the    *)
(* C++ array is element i+1 of the sequence.                               *)
(***************************************************************************)
EXTENDS Integers, Sequences, FiniteSets, TLC

VARIABLES
    mesh,     \* mesh[m]: the seven Array1 members of instance m
    debug,    \* TRUE in a build where JET_ASSERT is active
    status,   \* "ok", "assert" (a JET_ASSERT aborted) or "crash" (UB faulted)
    last,     \* the operation that ran last, with its arguments and results
    isect,    \* the caller's SurfaceRayIntersection3 record
    strm,     \* the OBJ text stream, a sequence of lines
    parse,    \* readObj's parser: its state, the next line and the target mesh
    used,     \* accessor writes, swaps, reads and transforms so far (bounded)
    par       \* the parallelFor in progress: its tasks and what they touched

vars == <<mesh, debug, status, last, isect, strm, parse, used, par>>

(***************************************************************************)
(* Bounds of the model.                                                    *)
(***************************************************************************)
MaxPoints == 3
MaxNormals == 2
MaxUvs == 2
MaxFaces == 2
MaxWrites == 1
MaxSwaps == 1
MaxReads == 1
MaxTransforms == 1

MeshIds == {"a", "b"}

(***************************************************************************)
(* Values.  A Vector3D is <<x, y, z>>, a Vector2D <<u, v>>, a Point3UI a   *)
(* triple of 0-based indices.                                              *)
(***************************************************************************)
PA == <<0, 0, 0>>
PB == <<4, 0, 0>>
PC == <<0, 4, 0>>
PD == <<8, 0, 0>>
NormalVals == {<<0, 0, 1>>, <<1, 0, 0>>}
IndexTriples == {<<0, 0, 0>>, <<1, 0, 0>>, <<0, 1, 2>>}

\* The index triples a caller may pass for an attribute array of n elements.
TriplesInRange(n) == {t \in IndexTriples : \A j \in 1..3 : t[j] < n}

EmptyMesh ==
    [points |-> <<>>, normals |-> <<>>, uvs |-> <<>>,
     pointIndices |-> <<>>, normalIndices |-> <<>>, uvIndices |-> <<>>,
     areaCache |-> <<>>]

NoOp == [op |-> "none", m |-> "a"]

\* SurfaceRayIntersection3 as default-constructed: no hit, t at the sentinel.
MaxDouble == 2147483647
NoHit == [isIntersecting |-> FALSE, t |-> MaxDouble, point |-> <<0, 0, 0>>]

NotParsing == [active |-> FALSE, pos |-> 1, m |-> "b", fresh |-> FALSE]

numberOfPoints(m) == Len(mesh[m].points)
numberOfNormals(m) == Len(mesh[m].normals)
numberOfUvs(m) == Len(mesh[m].uvs)
numberOfFaces(m) == Len(mesh[m].pointIndices)
hasNormals(m) == Len(mesh[m].normals) > 0
hasUvs(m) == Len(mesh[m].uvs) > 0

\* The budgets the append operations share between the two instances.
TotalPoints == Len(mesh["a"].points) + Len(mesh["b"].points)
TotalNormals == Len(mesh["a"].normals) + Len(mesh["b"].normals)
TotalUvs == Len(mesh["a"].uvs) + Len(mesh["b"].uvs)
TotalFaces == Len(mesh["a"].pointIndices) + Len(mesh["b"].pointIndices)

\* No parallelFor is in progress.
NoJob == [active |-> FALSE]

Running == status = "ok" /\ ~parse.active /\ ~par.active

Frame == UNCHANGED <<debug, par, isect, strm, parse, used>>

(***************************************************************************)
(* JET_ASSERT(cond): aborts the program in a debug build, nothing          *)
(* otherwise.                                                              *)
(***************************************************************************)
AssertFails(cond) == debug /\ ~cond

(***************************************************************************)
(* The append operations.                                                  *)
(***************************************************************************)
AddPoint(m, pt) ==
    /\ Running
    /\ TotalPoints < MaxPoints
    /\ mesh' = [mesh EXCEPT ![m].points = Append(@, pt)]
    /\ last' = [op |-> "addPoint", m |-> m]
    /\ UNCHANGED status
    /\ Frame

AddNormal(m, n) ==
    /\ Running
    /\ TotalNormals < MaxNormals
    /\ mesh' = [mesh EXCEPT ![m].normals = Append(@, n)]
    /\ last' = [op |-> "addNormal", m |-> m]
    /\ UNCHANGED status
    /\ Frame

AddUv(m, t) ==
    /\ Running
    /\ TotalUvs < MaxUvs
    /\ mesh' = [mesh EXCEPT ![m].uvs = Append(@, t)]
    /\ last' = [op |-> "addUv", m |-> m]
    /\ UNCHANGED status
    /\ Frame

AddPointFace(m, newPointIndices) ==
    /\ Running
    /\ TotalFaces < MaxFaces
    /\ mesh' = [mesh EXCEPT ![m].pointIndices = Append(@, newPointIndices)]
    /\ last' = [op |-> "addPointFace", m |-> m]
    /\ UNCHANGED status
    /\ Frame

\* The body of a face append that carries assertions: abort when one fails
\* in a debug build, else append.
AssertThenAppend(m, ok, name, appended) ==
    IF AssertFails(ok)
    THEN /\ status' = "assert"
         /\ last' = [op |-> name, m |-> m]
         /\ UNCHANGED mesh
    ELSE /\ mesh' = [mesh EXCEPT ![m] = appended]
         /\ last' = [op |-> name, m |-> m]
         /\ UNCHANGED status

PointNormalFaceAssert(m) ==
    Len(mesh[m].pointIndices) = Len(mesh[m].normalIndices)

PointNormalFaceAppended(m, newPointIndices, newNormalIndices) ==
    [mesh[m] EXCEPT
        !.pointIndices = Append(@, newPointIndices),
        !.normalIndices = Append(@, newNormalIndices)]

AddPointNormalFace(m, newPointIndices, newNormalIndices) ==
    /\ Running
    /\ TotalFaces < MaxFaces
    /\ AssertThenAppend(m, PointNormalFaceAssert(m), "addPointNormalFace",
          PointNormalFaceAppended(m, newPointIndices, newNormalIndices))
    /\ Frame

PointNormalUvFaceAssert(m) ==
    /\ Len(mesh[m].pointIndices) = Len(mesh[m].normalIndices)
    /\ Len(mesh[m].pointIndices) = Len(mesh[m].uvs)

PointNormalUvFaceAppended(m, newPointIndices, newNormalIndices, newUvIndices) ==
    [mesh[m] EXCEPT
        !.pointIndices = Append(@, newPointIndices),
        !.normalIndices = Append(@, newNormalIndices),
        !.uvIndices = Append(@, newUvIndices)]

AddPointNormalUvFace(m, newPointIndices, newNormalIndices, newUvIndices) ==
    /\ Running
    /\ TotalFaces < MaxFaces
    /\ AssertThenAppend(m, PointNormalUvFaceAssert(m), "addPointNormalUvFace",
          PointNormalUvFaceAppended(m, newPointIndices, newNormalIndices,
                                    newUvIndices))
    /\ Frame

PointUvFaceAssert(m) ==
    Len(mesh[m].pointIndices) = Len(mesh[m].uvs)

PointUvFaceAppended(m, newPointIndices, newUvIndices) ==
    [mesh[m] EXCEPT
        !.pointIndices = Append(@, newPointIndices),
        !.uvIndices = Append(@, newUvIndices)]

AddPointUvFace(m, newPointIndices, newUvIndices) ==
    /\ Running
    /\ TotalFaces < MaxFaces
    /\ AssertThenAppend(m, PointUvFaceAssert(m), "addPointUvFace",
          PointUvFaceAppended(m, newPointIndices, newUvIndices))
    /\ Frame

\* A Triangle3 value: three points, three normals, three uvs.
TriangleVals ==
    { [points |-> <<PA, PB, PC>>,
       normals |-> <<n, n, n>>,
       uvs |-> <<<<0, 0>>, <<1, 0>>, <<0, 0>>>>] : n \in NormalVals }

AddTriangle(m, tri) ==
    /\ Running
    /\ TotalFaces < MaxFaces
    /\ TotalPoints <= MaxPoints
    /\ LET vStart == Len(mesh[m].points)
           nStart == Len(mesh[m].normals)
           tStart == Len(mesh[m].uvs)
       IN mesh' = [mesh EXCEPT ![m] = [@ EXCEPT
              !.points = @ \o tri.points,
              !.normals = @ \o tri.normals,
              !.uvs = @ \o tri.uvs,
              !.pointIndices = Append(@, <<vStart, vStart + 1, vStart + 2>>),
              !.normalIndices = Append(@, <<nStart, nStart + 1, nStart + 2>>),
              !.uvIndices = Append(@, <<tStart, tStart + 1, tStart + 2>>)]]
    /\ last' = [op |-> "addTriangle", m |-> m]
    /\ UNCHANGED status
    /\ Frame

(***************************************************************************)
(* triangle(i), the per-face view.  It reads _uvIndices[i] whenever the    *)
(* mesh has uvs and _normalIndices[i] whenever it has normals; a read past *)
(* the end of either array is undefined behaviour.                         *)
(***************************************************************************)
ReadsUvIndex(m, i) == hasUvs(m)
ReadsNormalIndex(m, i) == hasNormals(m)

TriangleOutOfRange(m, i) ==
    \/ ReadsUvIndex(m, i) /\ i >= Len(mesh[m].uvIndices)
    \/ ReadsNormalIndex(m, i) /\ i >= Len(mesh[m].normalIndices)

\* Whether materializing every face of m stays inside the index arrays.
AllTrianglesDefined(m) ==
    \A i \in 0..(numberOfFaces(m) - 1) : ~TriangleOutOfRange(m, i)

\* The positions of face i, which are all the geometry queries depend on.
TrianglePoints(m, i) ==
    LET f == mesh[m].pointIndices[i + 1]
    IN <<mesh[m].points[f[1] + 1], mesh[m].points[f[2] + 1],
         mesh[m].points[f[3] + 1]>>

\* The outcome of an operation that materializes faces: it completes, or,
\* when a read went out of range, it may fault instead.
Faulted(m, name) ==
    /\ ~AllTrianglesDefined(m)
    /\ status' = "crash"
    /\ last' = [op |-> name, m |-> m]
    /\ UNCHANGED mesh

Triangle(m, i) ==
    /\ Running
    /\ i < numberOfFaces(m)
    /\ \/ /\ last' = [op |-> "triangle", m |-> m, i |-> i,
                      readUv |-> ReadsUvIndex(m, i),
                      readNormal |-> ReadsNormalIndex(m, i),
                      uvIndicesSize |-> Len(mesh[m].uvIndices),
                      normalIndicesSize |-> Len(mesh[m].normalIndices)]
          /\ UNCHANGED status
       \/ /\ TriangleOutOfRange(m, i)
          /\ status' = "crash"
          /\ last' = [op |-> "triangle", m |-> m, i |-> i,
                      readUv |-> ReadsUvIndex(m, i),
                      readNormal |-> ReadsNormalIndex(m, i),
                      uvIndicesSize |-> Len(mesh[m].uvIndices),
                      normalIndicesSize |-> Len(mesh[m].normalIndices)]
    /\ UNCHANGED mesh
    /\ Frame

(***************************************************************************)
(* Doubles.  A double is <<n, d>>, the rational n/d in lowest terms with   *)
(* d > 0; <<0, 0>> is NaN (0/0) and <<1, 0>> is +infinity (x/0, x > 0).    *)
(* Every comparison with NaN is false, as in IEEE 754.                     *)
(***************************************************************************)
RECURSIVE Gcd(_, _)
Gcd(x, y) == IF y = 0 THEN x ELSE Gcd(y, x % y)

Abs(x) == IF x < 0 THEN -x ELSE x

Dbl(n, d) ==
    IF d = 0 THEN (IF n = 0 THEN <<0, 0>> ELSE <<1, 0>>)
    ELSE LET g == Gcd(Abs(n), d) IN <<n \div g, d \div g>>

Zero == <<0, 1>>
One == <<1, 1>>
NaN == <<0, 0>>
IsNaN(x) == x = NaN

DAdd(x, y) ==
    IF IsNaN(x) \/ IsNaN(y) THEN NaN
    ELSE IF x[2] = 0 \/ y[2] = 0 THEN <<1, 0>>
    ELSE Dbl(x[1] * y[2] + y[1] * x[2], x[2] * y[2])

DDiv(x, y) ==
    IF IsNaN(x) \/ IsNaN(y) THEN NaN
    ELSE IF x[2] = 0 THEN (IF y[2] = 0 THEN NaN ELSE x)
    ELSE IF y[2] = 0 THEN Zero
    ELSE Dbl(x[1] * y[2], x[2] * y[1])

DLess(x, y) ==
    /\ ~IsNaN(x)
    /\ ~IsNaN(y)
    /\ IF x[2] = 0 THEN FALSE
       ELSE IF y[2] = 0 THEN TRUE
       ELSE x[1] * y[2] < y[1] * x[2]

DLeq(x, y) == ~IsNaN(x) /\ ~IsNaN(y) /\ (x = y \/ DLess(x, y))

(***************************************************************************)
(* Triangle3::area() for a triangle in the plane z = 0: half the length of *)
(* the cross product of two edges.                                         *)
(***************************************************************************)
TriArea(pts) ==
    LET ux == pts[2][1] - pts[1][1]
        uy == pts[2][2] - pts[1][2]
        vx == pts[3][1] - pts[1][1]
        vy == pts[3][2] - pts[1][2]
    IN Dbl(Abs(ux * vy - uy * vx), 2)

(***************************************************************************)
(* computeAreaCache / computeAreaCacheP.                                   *)
(***************************************************************************)
\* The first loop: cache[0] = 0, cache[i] = area(face i-1) + cache[i-1].
CumulativeAreas(m) ==
    LET n == numberOfFaces(m)
        c[i \in 0..n] ==
            IF i = 0 THEN Zero
            ELSE DAdd(TriArea(TrianglePoints(m, i - 1)), c[i - 1])
    IN [i \in 1..(n + 1) |-> c[i - 1]]

\* The second loop, from index i on: cache[i] /= cache[numberOfFaces()],
\* in place, so each step divides by the entry's value at that moment.
RECURSIVE NormalizeFrom(_, _, _)
NormalizeFrom(cache, i, n) ==
    IF i >= Len(cache) THEN cache
    ELSE NormalizeFrom([cache EXCEPT ![i + 1] = DDiv(@, cache[n + 1])],
                       i + 1, n)

\* A normalization that walks the entries from the last one down.
RECURSIVE NormalizeDownFrom(_, _, _)
NormalizeDownFrom(cache, i, n) ==
    IF i < 1 THEN cache
    ELSE NormalizeDownFrom([cache EXCEPT ![i + 1] = DDiv(@, cache[n + 1])],
                           i - 1, n)

BuiltAreaCacheLastFirst(m) ==
    NormalizeDownFrom(CumulativeAreas(m), numberOfFaces(m), numberOfFaces(m))

BuiltAreaCache(m) ==
    NormalizeFrom(CumulativeAreas(m), 1, numberOfFaces(m))

BuiltAreaCacheP(m) ==
    NormalizeFrom(CumulativeAreas(m), 1, numberOfFaces(m))

ComputeAreaCache(m) ==
    /\ Running
    /\ \/ /\ mesh' = [mesh EXCEPT ![m].areaCache = BuiltAreaCache(m)]
          /\ last' = [op |-> "computeAreaCache", m |-> m]
          /\ UNCHANGED status
       \/ Faulted(m, "computeAreaCache")
    /\ Frame

ClearAreaCache(m) ==
    /\ Running
    /\ mesh[m].areaCache # <<>>
    /\ mesh' = [mesh EXCEPT ![m].areaCache = <<>>]
    /\ last' = [op |-> "clearAreaCache", m |-> m]
    /\ UNCHANGED status
    /\ Frame

(***************************************************************************)
(* sample(u1, u2, u3, x, n).                                               *)
(***************************************************************************)
\* std::lower_bound over cache[first .. first+count): the 0-based position
\* the binary search stops at.
RECURSIVE LowerBound(_, _, _, _)
LowerBound(cache, first, count, u1) ==
    IF count <= 0 THEN first
    ELSE LET step == count \div 2
             it == first + step
         IN IF DLess(cache[it + 1], u1)
            THEN LowerBound(cache, it + 1, count - (step + 1), u1)
            ELSE LowerBound(cache, first, step, u1)

\* The cache sample works on: rebuilt when its length is not faces + 1.
SampleCache(m) ==
    IF Len(mesh[m].areaCache) # numberOfFaces(m) + 1
    THEN BuiltAreaCacheP(m)
    ELSE mesh[m].areaCache

SampleOffset(cache, u1) ==
    LET ptr == LowerBound(cache, 0, Len(cache), u1)
    IN IF ptr > 0 THEN ptr - 1 ELSE 0

Sample(m, u1) ==
    /\ Running
    /\ LET rebuilt == Len(mesh[m].areaCache) # numberOfFaces(m) + 1
           cache == SampleCache(m)
           offset == SampleOffset(cache, u1)
           done == [op |-> "sample", m |-> m, u1 |-> u1, offset |-> offset,
                    rebuilt |-> rebuilt]
       IN \/ /\ offset < numberOfFaces(m)
             /\ ~TriangleOutOfRange(m, offset)
             /\ mesh' = [mesh EXCEPT ![m].areaCache = cache]
             /\ last' = done
             /\ UNCHANGED status
          \/ /\ offset >= numberOfFaces(m) \/ ~AllTrianglesDefined(m)
             /\ mesh' = [mesh EXCEPT ![m].areaCache = cache]
             /\ last' = done
             /\ status' = "crash"
          \/ /\ offset < numberOfFaces(m)
             /\ TriangleOutOfRange(m, offset)
             /\ mesh' = [mesh EXCEPT ![m].areaCache = cache]
             /\ last' = done
             /\ UNCHANGED status
    /\ Frame

U1Vals == {Zero, <<1, 3>>, <<1, 2>>}

(***************************************************************************)
(* Writes through the mutable accessors point(i) and pointIndex(i).        *)
(***************************************************************************)
SetPoint(m, i, v) ==
    /\ Running
    /\ i < numberOfPoints(m)
    /\ used.writes < MaxWrites
    /\ mesh[m].points[i + 1] # v
    /\ mesh' = [mesh EXCEPT ![m].points[i + 1] = v]
    /\ used' = [used EXCEPT !.writes = @ + 1]
    /\ last' = [op |-> "point", m |-> m]
    /\ UNCHANGED <<debug, par, status, isect, strm, parse>>

SetPointIndex(m, i, t) ==
    /\ Running
    /\ i < numberOfFaces(m)
    /\ used.writes < MaxWrites
    /\ mesh[m].pointIndices[i + 1] # t
    /\ mesh' = [mesh EXCEPT ![m].pointIndices[i + 1] = t]
    /\ used' = [used EXCEPT !.writes = @ + 1]
    /\ last' = [op |-> "pointIndex", m |-> m]
    /\ UNCHANGED <<debug, par, status, isect, strm, parse>>

(***************************************************************************)
(* clear, set, swap.                                                       *)
(***************************************************************************)
Clear(m) ==
    /\ Running
    /\ mesh[m] # EmptyMesh
    /\ mesh' = [mesh EXCEPT ![m] = EmptyMesh]
    /\ last' = [op |-> "clear", m |-> m]
    /\ UNCHANGED status
    /\ Frame

\* The same copy with the area cache of this mesh left as it was.
SetFromKeepingAreaCache(this, other) ==
    [points |-> other.points,
     normals |-> other.normals,
     uvs |-> other.uvs,
     pointIndices |-> other.pointIndices,
     normalIndices |-> other.normalIndices,
     uvIndices |-> other.uvIndices,
     areaCache |-> this.areaCache]

\* The members of `other` as set copies them into this mesh.
SetFrom(this, other) ==
    [points |-> other.points,
     normals |-> other.normals,
     uvs |-> other.uvs,
     pointIndices |-> other.pointIndices,
     normalIndices |-> other.normalIndices,
     uvIndices |-> other.uvIndices,
     areaCache |-> other.areaCache]

Set(m, o) ==
    /\ Running
    /\ mesh' = [mesh EXCEPT ![m] = SetFrom(mesh[m], mesh[o])]
    /\ last' = [op |-> "set", m |-> m, other |-> o, before |-> mesh[o]]
    /\ UNCHANGED status
    /\ Frame

\* operator= calls set(other) and returns *this.
Assign(m, o) ==
    /\ Running
    /\ mesh' = [mesh EXCEPT ![m] = SetFrom(mesh[m], mesh[o])]
    /\ last' = [op |-> "operator=", m |-> m, other |-> o, before |-> mesh[o]]
    /\ UNCHANGED status
    /\ Frame

\* The copy constructor: a new object, whose members start empty, calls
\* set(other).  The new object takes the place of m.
CopyConstruct(m, o) ==
    /\ Running
    /\ m # o
    /\ mesh' = [mesh EXCEPT ![m] = SetFrom(EmptyMesh, mesh[o])]
    /\ last' = [op |-> "TriangleMesh3", m |-> m, other |-> o,
                before |-> mesh[o]]
    /\ UNCHANGED status
    /\ Frame

Swap(m, o) ==
    /\ Running
    /\ m # o
    /\ used.swaps < MaxSwaps
    /\ mesh' = [mesh EXCEPT ![m] = mesh[o], ![o] = mesh[m]]
    /\ used' = [used EXCEPT !.swaps = @ + 1]
    /\ last' = [op |-> "swap", m |-> m, other |-> o]
    /\ UNCHANGED <<debug, par, status, isect, strm, parse>>

(***************************************************************************)
(* The single-triangle primitive, for triangles that lie in a plane        *)
(* z = c (all the model's triangles do) and, for rays, a ray that points   *)
(* straight down.                                                          *)
(***************************************************************************)
Sub(u, v) == <<u[1] - v[1], u[2] - v[2], u[3] - v[3]>>
Dot2(u, v) == u[1] * v[1] + u[2] * v[2]
LengthSquared(v) == v[1] * v[1] + v[2] * v[2] + v[3] * v[3]

\* Twice the signed area of (p, q, r) seen from above.
Orient(p, q, r) ==
    (q[1] - p[1]) * (r[2] - p[2]) - (q[2] - p[2]) * (r[1] - p[1])

\* Whether (x, y) of point x lies in the triangle's projection, edges included.
InsideTriangle(pts, x) ==
    LET d1 == Orient(pts[1], pts[2], x)
        d2 == Orient(pts[2], pts[3], x)
        d3 == Orient(pts[3], pts[1], x)
    IN /\ Orient(pts[1], pts[2], pts[3]) # 0
       /\ \/ d1 >= 0 /\ d2 >= 0 /\ d3 >= 0
          \/ d1 <= 0 /\ d2 <= 0 /\ d3 <= 0

\* The point of segment [p, q] closest to x (in the plane of the segment).
ClosestOnSegment(p, q, x) ==
    LET den == Dot2(Sub(q, p), Sub(q, p))
        num == Dot2(Sub(x, p), Sub(q, p))
        t == IF num < 0 THEN 0 ELSE IF num > den THEN den ELSE num
    IN IF den = 0 THEN p
       ELSE <<p[1] + (t * (q[1] - p[1])) \div den,
              p[2] + (t * (q[2] - p[2])) \div den,
              p[3]>>

\* Triangle3::closestPoint(x).
TriClosestPoint(pts, x) ==
    IF InsideTriangle(pts, x) THEN <<x[1], x[2], pts[1][3]>>
    ELSE LET c1 == ClosestOnSegment(pts[1], pts[2], x)
             c2 == ClosestOnSegment(pts[2], pts[3], x)
             c3 == ClosestOnSegment(pts[3], pts[1], x)
             d1 == LengthSquared(Sub(x, c1))
             d2 == LengthSquared(Sub(x, c2))
             d3 == LengthSquared(Sub(x, c3))
         IN IF d1 <= d2 /\ d1 <= d3 THEN c1
            ELSE IF d2 <= d3 THEN c2 ELSE c3

\* Triangle3::getClosestIntersection(ray, &tmp) for the ray from `origin`
\* straight down: tmp as the primitive leaves a default-constructed record.
TriClosestIntersection(pts, origin) ==
    IF InsideTriangle(pts, origin) /\ origin[3] > pts[1][3]
    THEN [isIntersecting |-> TRUE, t |-> origin[3] - pts[1][3],
          point |-> <<origin[1], origin[2], pts[1][3]>>]
    ELSE NoHit

(***************************************************************************)
(* closestPoint(otherPoint).                                               *)
(***************************************************************************)
\* The scan from face i on; best is <<minDistPt, minDistSquared>>.
RECURSIVE ClosestPointScanLastWins(_, _, _, _)
ClosestPointScanLastWins(m, otherPoint, i, best) ==
    IF i >= numberOfFaces(m) THEN best
    ELSE LET pt == TriClosestPoint(TrianglePoints(m, i), otherPoint)
             distSquared == LengthSquared(Sub(otherPoint, pt))
         IN ClosestPointScanLastWins(m, otherPoint, i + 1,
                IF distSquared <= best[2] THEN <<pt, distSquared>> ELSE best)

RECURSIVE ClosestPointScan(_, _, _, _)
ClosestPointScan(m, otherPoint, i, best) ==
    IF i >= numberOfFaces(m) THEN best
    ELSE LET pt == TriClosestPoint(TrianglePoints(m, i), otherPoint)
             distSquared == LengthSquared(Sub(otherPoint, pt))
         IN ClosestPointScan(m, otherPoint, i + 1,
                IF distSquared < best[2] THEN <<pt, distSquared>> ELSE best)

ClosestPoint(m, otherPoint) ==
    /\ Running
    /\ \/ /\ last' = [op |-> "closestPoint", m |-> m, p |-> otherPoint,
                      result |-> ClosestPointScan(m, otherPoint, 0,
                          <<<<MaxDouble, MaxDouble, MaxDouble>>,
                            MaxDouble>>)[1]]
          /\ UNCHANGED <<mesh, status>>
       \/ Faulted(m, "closestPoint")
    /\ Frame

(***************************************************************************)
(* getClosestIntersection(ray, intersection).  The record the caller       *)
(* passes is `isect`; it lives on between calls.                           *)
(***************************************************************************)
\* The scan from face i on: <<t, *intersection>>.
RECURSIVE ClosestIntersectionScan(_, _, _, _)
ClosestIntersectionScan(m, origin, i, acc) ==
    IF i >= numberOfFaces(m) THEN acc
    ELSE LET tmpIntersection ==
                 TriClosestIntersection(TrianglePoints(m, i), origin)
         IN ClosestIntersectionScan(m, origin, i + 1,
                IF tmpIntersection.t < acc[1]
                THEN <<tmpIntersection.t, tmpIntersection>>
                ELSE acc)

\* Whether some face of m is hit by the ray from `origin`.
AnyFaceIntersects(m, origin) ==
    \E i \in 0..(numberOfFaces(m) - 1) :
        TriClosestIntersection(TrianglePoints(m, i), origin).isIntersecting

GetClosestIntersection(m, origin) ==
    /\ Running
    /\ \/ /\ isect' = ClosestIntersectionScan(m, origin, 0,
                          <<MaxDouble, isect>>)[2]
          /\ last' = [op |-> "getClosestIntersection", m |-> m,
                      origin |-> origin, before |-> isect]
          /\ UNCHANGED <<mesh, status>>
       \/ /\ Faulted(m, "getClosestIntersection")
          /\ UNCHANGED isect
    /\ UNCHANGED <<debug, par, strm, parse, used>>

\* The caller default-constructs a new SurfaceRayIntersection3.
NewIntersection ==
    /\ Running
    /\ isect # NoHit
    /\ isect' = NoHit
    /\ last' = [op |-> "newIntersection", m |-> "a"]
    /\ UNCHANGED <<mesh, status, debug, par, strm, parse, used>>

(***************************************************************************)
(* closestDistance, actualClosestNormal, intersects, area and volume: the  *)
(* other scans over the faces.  Each records in `triangles` how many times *)
(* it called triangle(i).                                                  *)
(***************************************************************************)
\* std::sqrt on the squares the model's distances are.
Sqrt(x) == CHOOSE r \in 0..x : r * r = x

ClosestDistance(m, otherPoint) ==
    /\ Running
    /\ LET n == numberOfFaces(m)
           minDist[i \in 0..n] ==
               IF i = 0 THEN MaxDouble
               ELSE LET pt == TriClosestPoint(TrianglePoints(m, i - 1),
                                              otherPoint)
                        d == Sqrt(LengthSquared(Sub(otherPoint, pt)))
                    IN IF d < minDist[i - 1] THEN d ELSE minDist[i - 1]
       IN \/ /\ last' = [op |-> "closestDistance", m |-> m,
                         p |-> otherPoint, result |-> minDist[n],
                         triangles |-> n]
             /\ UNCHANGED <<mesh, status>>
          \/ Faulted(m, "closestDistance")
    /\ Frame

\* The locals before the loop: <<minDistPt, minDistNormal, minDistSquared>>,
\* with the normal along z.
ActualClosestNormalStartUp ==
    <<<<MaxDouble, MaxDouble, MaxDouble>>, <<0, 0, 1>>, MaxDouble>>

\* The locals before the loop: <<minDistPt, minDistNormal, minDistSquared>>.
ActualClosestNormalStart ==
    <<<<MaxDouble, MaxDouble, MaxDouble>>, <<1, 0, 0>>, MaxDouble>>

\* tri.closestNormal is taken at a triangle whose three normals are equal,
\* where it is that normal.
ActualClosestNormal(m, otherPoint) ==
    /\ Running
    /\ LET n == numberOfFaces(m)
           best[i \in 0..n] ==
               IF i = 0 THEN ActualClosestNormalStart
               ELSE LET pt == TriClosestPoint(TrianglePoints(m, i - 1),
                                              otherPoint)
                        distSquared == LengthSquared(Sub(otherPoint, pt))
                        normal ==
                            mesh[m].normals[mesh[m].normalIndices[i][1] + 1]
                    IN IF distSquared < best[i - 1][3]
                       THEN <<pt, normal, distSquared>>
                       ELSE best[i - 1]
       IN \/ /\ last' = [op |-> "actualClosestNormal", m |-> m,
                         p |-> otherPoint, result |-> best[n][2],
                         triangles |-> n]
             /\ UNCHANGED <<mesh, status>>
          \/ Faulted(m, "actualClosestNormal")
    /\ Frame

\* The loop returns at the first face the ray hits.
Intersects(m, origin) ==
    /\ Running
    /\ LET n == numberOfFaces(m)
           hits == {i \in 0..(n - 1) :
                      TriClosestIntersection(TrianglePoints(m, i),
                                             origin).isIntersecting}
           first == IF hits = {} THEN n
                    ELSE CHOOSE i \in hits : \A h \in hits : i <= h
       IN \/ /\ last' = [op |-> "intersects", m |-> m, origin |-> origin,
                         result |-> AnyFaceIntersects(m, origin),
                         triangles |-> IF hits = {} THEN n ELSE first + 1]
             /\ UNCHANGED <<mesh, status>>
          \/ Faulted(m, "intersects")
    /\ Frame

Area(m) ==
    /\ Running
    /\ LET n == numberOfFaces(m)
           a[i \in 0..n] ==
               IF i = 0 THEN Zero
               ELSE DAdd(a[i - 1], TriArea(TrianglePoints(m, i - 1)))
       IN \/ /\ last' = [op |-> "area", m |-> m, result |-> a[n],
                         triangles |-> n]
             /\ UNCHANGED <<mesh, status>>
          \/ Faulted(m, "area")
    /\ Frame

\* vol += points[0].dot(points[1].cross(points[2])) / 6.f
Volume(m) ==
    /\ Running
    /\ LET n == numberOfFaces(m)
           triple(pts) ==
               pts[1][1] * (pts[2][2] * pts[3][3] - pts[2][3] * pts[3][2])
               + pts[1][2] * (pts[2][3] * pts[3][1] - pts[2][1] * pts[3][3])
               + pts[1][3] * (pts[2][1] * pts[3][2] - pts[2][2] * pts[3][1])
           vol[i \in 0..n] ==
               IF i = 0 THEN Zero
               ELSE DAdd(vol[i - 1],
                         Dbl(triple(TrianglePoints(m, i - 1)), 6))
       IN \/ /\ last' = [op |-> "volume", m |-> m, result |-> vol[n],
                         triangles |-> n]
             /\ UNCHANGED <<mesh, status>>
          \/ Faulted(m, "volume")
    /\ Frame

(***************************************************************************)
(* Vectors of doubles, for the normals the mesh computes itself.           *)
(***************************************************************************)
DMul(x, y) ==
    IF IsNaN(x) \/ IsNaN(y) THEN NaN
    ELSE IF x[2] = 0 \/ y[2] = 0
         THEN (IF x[1] = 0 \/ y[1] = 0 THEN NaN ELSE <<1, 0>>)
    ELSE Dbl(x[1] * y[1], x[2] * y[2])

ZeroVec == <<Zero, Zero, Zero>>
NaNVec == <<NaN, NaN, NaN>>
VAdd(u, v) == <<DAdd(u[1], v[1]), DAdd(u[2], v[2]), DAdd(u[3], v[3])>>
VScale(a, v) == <<DMul(a, v[1]), DMul(a, v[2]), DMul(a, v[3])>>
VDiv(v, a) == <<DDiv(v[1], a), DDiv(v[2], a), DDiv(v[3], a)>>

\* e0.cross(e1) followed by normalize(), for edges in a plane z = c: the
\* cross product is (0, 0, k), and dividing it by its length gives
\* (0, 0, 1), (0, 0, -1) or, for k = 0, 0/0 in every component.
UnitCross(e0, e1) ==
    LET k == e0[1] * e1[2] - e0[2] * e1[1]
    IN IF k = 0 THEN NaNVec
       ELSE <<Zero, Zero, Dbl(IF k > 0 THEN 1 ELSE -1, 1)>>

\* Triangle3::faceNormal().
FaceNormal(pts) == UnitCross(Sub(pts[2], pts[1]), Sub(pts[3], pts[1]))

\* array.resize(n): the first n elements, new ones value-initialized.
Resized(array, n, fill) ==
    [k \in 1..n |-> IF k <= Len(array) THEN array[k] ELSE fill]

(***************************************************************************)
(* setFaceNormal.                                                          *)
(***************************************************************************)
\* The faces stop-1 down to i: the loop run from the last face to the first.
RECURSIVE FaceNormalLoopDownward(_, _, _)
FaceNormalLoopDownward(me, i, stop) ==
    IF i >= stop THEN me
    ELSE LET f == me.pointIndices[stop]
             n == FaceNormal(<<me.points[f[1] + 1], me.points[f[2] + 1],
                               me.points[f[3] + 1]>>)
             x == [me.normals EXCEPT ![f[1] + 1] = n]
             y == [x EXCEPT ![f[2] + 1] = n]
             z == [y EXCEPT ![f[3] + 1] = n]
         IN FaceNormalLoopDownward([me EXCEPT !.normals = z], i, stop - 1)

\* The loop over the faces i .. stop-1 on the members `me`.
RECURSIVE FaceNormalLoop(_, _, _)
FaceNormalLoop(me, i, stop) ==
    IF i >= stop THEN me
    ELSE LET f == me.pointIndices[i + 1]
             n == FaceNormal(<<me.points[f[1] + 1], me.points[f[2] + 1],
                               me.points[f[3] + 1]>>)
             x == [me.normals EXCEPT ![f[1] + 1] = n]
             y == [x EXCEPT ![f[2] + 1] = n]
             z == [y EXCEPT ![f[3] + 1] = n]
         IN FaceNormalLoop([me EXCEPT !.normals = z], i + 1, stop)

\* The two statements before the loop.
FaceNormalPrepared(me) ==
    [me EXCEPT !.normals = Resized(@, Len(me.points), ZeroVec),
               !.normalIndices = me.pointIndices]

\* The first face whose triangle(i) reads _uvIndices out of range, if any:
\* the loop runs with normalIndices equal to pointIndices, so only the uv
\* index read can leave its array.
FirstUvOutOfRange(me) ==
    IF Len(me.uvs) > 0 /\ Len(me.uvIndices) < Len(me.pointIndices)
    THEN Len(me.uvIndices)
    ELSE Len(me.pointIndices)

SetFaceNormal(m) ==
    /\ Running
    /\ LET prepared == FaceNormalPrepared(mesh[m])
           n == Len(prepared.pointIndices)
           bad == FirstUvOutOfRange(prepared)
       IN \/ /\ mesh' = [mesh EXCEPT ![m] = FaceNormalLoop(prepared, 0, n)]
             /\ UNCHANGED status
          \/ /\ bad < n
             /\ mesh' = [mesh EXCEPT ![m] = FaceNormalLoop(prepared, 0, bad)]
             /\ status' = "crash"
    /\ last' = [op |-> "setFaceNormal", m |-> m,
                normalsBefore |-> numberOfNormals(m)]
    /\ Frame

(***************************************************************************)
(* setAngleWeightedVertexNormal.  Angles are counted in units of pi/4: the *)
(* corners of the model's triangles are multiples of 45 degrees.           *)
(***************************************************************************)
\* std::acos(clamp(e0.dot(e1), -1, 1)) for the normalized edges e0, e1 of a
\* corner; an edge of length 0 normalizes to 0/0.
CornerAngle(e0, e1) ==
    LET dot == Dot2(e0, e1)
        k == Abs(e0[1] * e1[2] - e0[2] * e1[1])
    IN CASE Dot2(e0, e0) = 0 \/ Dot2(e1, e1) = 0 -> NaN
         [] k = 0 /\ dot > 0 -> Dbl(0, 1)
         [] k = dot -> Dbl(1, 1)
         [] dot = 0 -> Dbl(2, 1)
         [] k = -dot -> Dbl(3, 1)
         [] k = 0 /\ dot < 0 -> Dbl(4, 1)

\* The normal of a corner: both edges normalized, crossed, normalized.
CornerNormal(e0, e1) ==
    IF Dot2(e0, e0) = 0 \/ Dot2(e1, e1) = 0 THEN NaNVec
    ELSE UnitCross(e0, e1)

\* acc is [angleWeights, pseudoNormals]; corner j of face i is added.
AddCorner(me, acc, i, j) ==
    LET f == me.pointIndices[i + 1]
        p0 == me.points[f[j] + 1]
        p1 == me.points[f[(j % 3) + 1] + 1]
        p2 == me.points[f[((j + 1) % 3) + 1] + 1]
        e0 == Sub(p1, p0)
        e1 == Sub(p2, p0)
        angle == CornerAngle(e0, e1)
        normal == CornerNormal(e0, e1)
    IN [angleWeights |->
            [acc.angleWeights EXCEPT ![f[j] + 1] = DAdd(@, angle)],
        pseudoNormals |->
            [acc.pseudoNormals EXCEPT
                ![f[j] + 1] = VAdd(@, VScale(angle, normal))]]

RECURSIVE AngleLoop(_, _, _)
AngleLoop(me, acc, i) ==
    IF i >= Len(me.pointIndices) THEN acc
    ELSE AngleLoop(me,
             AddCorner(me, AddCorner(me, AddCorner(me, acc, i, 1), i, 2),
                       i, 3),
             i + 1)

AngleWeightedNormals(me) ==
    LET n == Len(me.points)
        acc == AngleLoop(me, [angleWeights |-> [k \in 1..n |-> Zero],
                              pseudoNormals |-> [k \in 1..n |-> ZeroVec]], 0)
    IN [k \in 1..n |->
           IF DLess(Zero, acc.angleWeights[k])
           THEN VDiv(acc.pseudoNormals[k], acc.angleWeights[k])
           ELSE acc.pseudoNormals[k]]

\* The accumulated angle sums, as the loop leaves them.
AngleWeights(me) ==
    LET n == Len(me.points)
    IN AngleLoop(me, [angleWeights |-> [k \in 1..n |-> Zero],
                      pseudoNormals |-> [k \in 1..n |-> ZeroVec]],
                 0).angleWeights

\* The normal faces left cleared, as the first two statements make them.
NormalIndicesLeftCleared(me) == <<>>

\* The last statement: _normalIndices.set(_pointIndices).
NormalIndicesAfterAngleWeighted(me) == me.pointIndices

SetAngleWeightedVertexNormal(m) ==
    /\ Running
    /\ mesh' = [mesh EXCEPT
           ![m].normals = AngleWeightedNormals(mesh[m]),
           ![m].normalIndices = NormalIndicesAfterAngleWeighted(mesh[m])]
    /\ last' = [op |-> "setAngleWeightedVertexNormal", m |-> m,
                normalsBefore |-> numberOfNormals(m)]
    /\ UNCHANGED status
    /\ Frame

(***************************************************************************)
(* The text of a double.  operator<< writes a double with the stream's     *)
(* default precision of six significant digits; the text is modelled as    *)
(* [mant, exp], the decimal mant * 10^exp.  The model's numbers are        *)
(* non-negative integers.                                                  *)
(***************************************************************************)
Precision == 6

RECURSIVE Pow10(_)
Pow10(k) == IF k = 0 THEN 1 ELSE 10 * Pow10(k - 1)

RECURSIVE Digits(_)
Digits(x) == IF x < 10 THEN 1 ELSE 1 + Digits(x \div 10)

FormatDouble(x) ==
    IF Digits(x) <= Precision THEN [mant |-> x, exp |-> 0]
    ELSE LET k == Digits(x) - Precision
         IN [mant |-> (x + Pow10(k) \div 2) \div Pow10(k), exp |-> k]

\* The parser's reading of a number's text.
ParseDouble(tok) == tok.mant * Pow10(tok.exp)

FormatVector(v) == [j \in 1..Len(v) |-> FormatDouble(v[j])]
ParseVector(toks) == [j \in 1..Len(toks) |-> ParseDouble(toks[j])]

(***************************************************************************)
(* writeObj.  A line is [kind, toks] for "v", "vt" and "vn" and            *)
(* [kind, refs] for "f"; a vertex reference is the sequence of its         *)
(* '/'-separated fields, 0 for an empty field (the indices of the text     *)
(* start at 1): <<p>>, <<p, t>>, <<p, 0, n>> or <<p, t, n>>.               *)
(***************************************************************************)
\* array[i][j] as the code reads it: `garbage` when i is past the end.
IndexAt(array, i, j, garbage) ==
    IF i < Len(array) THEN array[i + 1][j] ELSE garbage

ObjVertexRef(m, i, j, garbage) ==
    LET p == mesh[m].pointIndices[i + 1][j] + 1
        t == IndexAt(mesh[m].uvIndices, i, j, garbage) + 1
        n == IndexAt(mesh[m].normalIndices, i, j, garbage) + 1
    IN IF hasUvs(m) /\ hasNormals(m) THEN <<p, t, n>>
       ELSE IF hasUvs(m) THEN <<p, t>>
       ELSE IF hasNormals(m) THEN <<p, 0, n>>
       ELSE <<p>>

ObjText(m, garbage) ==
    [k \in 1..numberOfPoints(m) |->
        [kind |-> "v", toks |-> FormatVector(mesh[m].points[k])]]
    \o [k \in 1..numberOfUvs(m) |->
        [kind |-> "vt", toks |-> FormatVector(mesh[m].uvs[k])]]
    \o [k \in 1..numberOfNormals(m) |->
        [kind |-> "vn", toks |-> FormatVector(mesh[m].normals[k])]]
    \o [i \in 1..numberOfFaces(m) |->
        [kind |-> "f",
         refs |-> [j \in 1..3 |-> ObjVertexRef(m, i - 1, j, garbage)]]]

\* What an out-of-range read of an index array may yield.
GarbageIndices == {0}

WriteObj(m) ==
    /\ Running
    /\ \/ /\ \E g \in GarbageIndices : strm' = ObjText(m, g)
          /\ last' = [op |-> "writeObj", m |-> m]
          /\ UNCHANGED <<mesh, status>>
       \/ /\ Faulted(m, "writeObj")
          /\ UNCHANGED strm
    /\ UNCHANGED <<debug, par, isect, parse, used>>

(***************************************************************************)
(* readObj.  The parser walks the lines and calls the mesh's callbacks;    *)
(* each step below is one line and the callback it triggers.               *)
(***************************************************************************)
\* The j-th field of the three vertex references, as 0-based indices.
RefField(refs, j) == <<refs[1][j] - 1, refs[2][j] - 1, refs[3][j] - 1>>

\* Which of the parser's four triangular face callbacks a face line fires.
FaceShape(refs) ==
    IF Len(refs[1]) = 1 THEN "v"
    ELSE IF Len(refs[1]) = 2 THEN "v/vt"
    ELSE IF refs[1][2] = 0 THEN "v//vn"
    ELSE "v/vt/vn"

ReadObjBegin(m) ==
    /\ Running
    /\ strm # <<>>
    /\ used.reads < MaxReads
    /\ used' = [used EXCEPT !.reads = @ + 1]
    /\ parse' = [active |-> TRUE, pos |-> 1, m |-> m,
                 fresh |-> mesh[m] = EmptyMesh]
    /\ last' = [op |-> "readObj:begin", m |-> m]
    /\ UNCHANGED <<mesh, debug, par, status, isect, strm>>

\* triangular_face_geometric_vertices_texture_vertices_vertex_normals: the
\* texture-vertex indices go to the second parameter of addPointNormalUvFace,
\* newNormalIndices, and the vertex-normal indices to the third, newUvIndices.
FaceCallbackVtVn(m, refs) ==
    AssertThenAppend(m, PointNormalUvFaceAssert(m), "addPointNormalUvFace",
        PointNormalUvFaceAppended(m, RefField(refs, 1), RefField(refs, 2),
                                  RefField(refs, 3)))

\* triangular_face_geometric_vertices_texture_vertices
FaceCallbackVt(m, refs) ==
    AssertThenAppend(m, PointUvFaceAssert(m), "addPointUvFace",
        PointUvFaceAppended(m, RefField(refs, 1), RefField(refs, 2)))

\* triangular_face_geometric_vertices_vertex_normals
FaceCallbackVn(m, refs) ==
    AssertThenAppend(m, PointNormalFaceAssert(m), "addPointNormalFace",
        PointNormalFaceAppended(m, RefField(refs, 1), RefField(refs, 3)))

\* triangular_face_geometric_vertices
FaceCallbackV(m, refs) ==
    /\ mesh' = [mesh EXCEPT ![m].pointIndices = Append(@, RefField(refs, 1))]
    /\ last' = [op |-> "addPointFace", m |-> m]
    /\ UNCHANGED status

ReadObjStep ==
    /\ status = "ok"
    /\ parse.active
    /\ parse.pos <= Len(strm)
    /\ LET line == strm[parse.pos]
           m == parse.m
       IN CASE line.kind = "v" ->
                 /\ mesh' = [mesh EXCEPT
                        ![m].points = Append(@, ParseVector(line.toks))]
                 /\ last' = [op |-> "addPoint", m |-> m]
                 /\ UNCHANGED status
            [] line.kind = "vt" ->
                 /\ mesh' = [mesh EXCEPT
                        ![m].uvs = Append(@, ParseVector(line.toks))]
                 /\ last' = [op |-> "addUv", m |-> m]
                 /\ UNCHANGED status
            [] line.kind = "vn" ->
                 /\ mesh' = [mesh EXCEPT
                        ![m].normals = Append(@, ParseVector(line.toks))]
                 /\ last' = [op |-> "addNormal", m |-> m]
                 /\ UNCHANGED status
            [] line.kind = "f" /\ FaceShape(line.refs) = "v" ->
                 FaceCallbackV(m, line.refs)
            [] line.kind = "f" /\ FaceShape(line.refs) = "v/vt" ->
                 FaceCallbackVt(m, line.refs)
            [] line.kind = "f" /\ FaceShape(line.refs) = "v//vn" ->
                 FaceCallbackVn(m, line.refs)
            [] line.kind = "f" /\ FaceShape(line.refs) = "v/vt/vn" ->
                 FaceCallbackVtVn(m, line.refs)
    /\ parse' = [parse EXCEPT !.pos = @ + 1]
    /\ UNCHANGED <<debug, par, isect, strm, used>>

\* parser.parse returns once the stream is exhausted.
ReadObjEnd ==
    /\ status = "ok"
    /\ parse.active
    /\ parse.pos > Len(strm)
    /\ parse' = [parse EXCEPT !.active = FALSE]
    /\ last' = [op |-> "readObj", m |-> parse.m, result |-> TRUE]
    /\ UNCHANGED <<mesh, debug, par, status, isect, strm, used>>

(***************************************************************************)
(* scale, translate, rotate.  Each runs parallelFor over the indices of    *)
(* an array: one task per index, run in any order and interleaved, and     *)
(* parallelFor returns once every task has finished.  The body of a task,  *)
(* such as _points[i] *= factor, is a load and a store, which other tasks  *)
(* may run between.                                                        *)
(***************************************************************************)
\* q * v for the quaternion of the model, a quarter turn about the z axis.
QuarterTurnZ(v) == <<-v[2], v[1], v[3]>>

\* The same for a normal, whose components are doubles.
DNeg(x) == IF x[2] = 0 THEN x ELSE <<-x[1], x[2]>>
QuarterTurnZNormal(v) == <<DNeg(v[2]), v[1], v[3]>>

\* What the body of the task computes from the element it loaded.
Transformed(op, arg, phase, v) ==
    CASE op = "scale" -> <<v[1] * arg, v[2] * arg, v[3] * arg>>
      [] op = "translate" -> <<v[1] + arg[1], v[2] + arg[2], v[3] + arg[3]>>
      [] op = "rotate" /\ phase = "points" -> QuarterTurnZ(v)
      [] op = "rotate" /\ phase = "normals" -> QuarterTurnZNormal(v)

\* A body that works on the element before its own.
TaskElementBefore(i) == IF i > 0 THEN i - 1 ELSE i

\* The element the task of index i works on: _points[i], _normals[i].
TaskElement(i) == i

\* The tasks of a parallelFor over [0, n).
TasksOver(n) == [k \in 0..(n - 1) |-> [pc |-> "todo", tmp |-> <<0, 0, 0>>]]

ParallelForBegin(m, op, arg) ==
    /\ Running
    /\ used.transforms < MaxTransforms
    /\ used' = [used EXCEPT !.transforms = @ + 1]
    /\ par' = [active |-> TRUE, op |-> op, m |-> m, arg |-> arg,
               phase |-> "points", tasks |-> TasksOver(numberOfPoints(m)),
               accesses |-> {}, before |-> mesh[m]]
    /\ last' = [op |-> op, m |-> m, arg |-> arg, returned |-> FALSE]
    /\ UNCHANGED <<mesh, debug, status, isect, strm, parse>>

Scale(m, factor) == ParallelForBegin(m, "scale", factor)
Translate(m, t) == ParallelForBegin(m, "translate", t)
Rotate(m, q) == ParallelForBegin(m, "rotate", q)

\* The access to `element` that task i makes, with, for a write, how many
\* writes the element has had.
Access(i, element, kind) ==
    [task |-> i, element |-> element, kind |-> kind, phase |-> par.phase,
     nth |-> IF kind = "read" THEN 0
             ELSE 1 + Cardinality({a \in par.accesses :
                          /\ a.kind = "write"
                          /\ a.element = element
                          /\ a.phase = par.phase})]

TaskLoad(i) ==
    /\ status = "ok"
    /\ par.active
    /\ i \in DOMAIN par.tasks
    /\ par.tasks[i].pc = "todo"
    /\ LET e == TaskElement(i)
           array == IF par.phase = "points" THEN mesh[par.m].points
                    ELSE mesh[par.m].normals
       IN par' = [par EXCEPT
              !.tasks[i] = [pc |-> "loaded", tmp |-> array[e + 1]],
              !.accesses = @ \cup {Access(i, e, "read")}]
    /\ UNCHANGED <<mesh, debug, status, last, isect, strm, parse, used>>

TaskStore(i) ==
    /\ status = "ok"
    /\ par.active
    /\ i \in DOMAIN par.tasks
    /\ par.tasks[i].pc = "loaded"
    /\ LET e == TaskElement(i)
           v == Transformed(par.op, par.arg, par.phase, par.tasks[i].tmp)
       IN /\ mesh' = IF par.phase = "points"
                     THEN [mesh EXCEPT ![par.m].points[e + 1] = v]
                     ELSE [mesh EXCEPT ![par.m].normals[e + 1] = v]
          /\ par' = [par EXCEPT
                 !.tasks[i].pc = "done",
                 !.accesses = @ \cup {Access(i, e, "write")}]
    /\ UNCHANGED <<debug, status, last, isect, strm, parse, used>>

\* parallelFor returns; rotate then starts its second parallelFor, over the
\* normals, and the operation returns after the last one.
ParallelForJoin ==
    /\ status = "ok"
    /\ par.active
    /\ \A i \in DOMAIN par.tasks : par.tasks[i].pc = "done"
    /\ IF par.op = "rotate" /\ par.phase = "points"
       THEN /\ par' = [par EXCEPT
                   !.phase = "normals",
                   !.tasks = TasksOver(numberOfNormals(par.m))]
            /\ UNCHANGED last
       ELSE /\ par' = NoJob
            /\ last' = [op |-> par.op, m |-> par.m, arg |-> par.arg,
                        returned |-> TRUE, before |-> par.before,
                        accesses |-> par.accesses]
    /\ UNCHANGED <<mesh, debug, status, isect, strm, parse, used>>

(***************************************************************************)
(* Initial state: two freshly constructed meshes.                          *)
(***************************************************************************)
Init ==
    /\ mesh = [m \in MeshIds |-> EmptyMesh]
    /\ debug \in BOOLEAN
    /\ status = "ok"
    /\ last = NoOp
    /\ isect = NoHit
    /\ strm = <<>>
    /\ parse = NotParsing
    /\ used = [writes |-> 0, swaps |-> 0, reads |-> 0, transforms |-> 0]
    /\ par = NoJob

(***************************************************************************)
(* SpecAppend: one mesh and the public append operations, with             *)
(* triangle(i).  Attribute values play no role here, indices do.           *)
(***************************************************************************)
NextAppend ==
    \/ AddPoint("a", PA)
    \/ AddNormal("a", <<0, 0, 1>>)
    \/ AddUv("a", <<0, 0>>)
    \/ \E p \in TriplesInRange(numberOfPoints("a")) : AddPointFace("a", p)
    \/ \E p \in TriplesInRange(numberOfPoints("a")),
          n \in TriplesInRange(numberOfNormals("a")) :
            AddPointNormalFace("a", p, n)
    \/ \E p \in TriplesInRange(numberOfPoints("a")),
          t \in TriplesInRange(numberOfUvs("a")) :
            AddPointUvFace("a", p, t)
    \/ \E p \in TriplesInRange(numberOfPoints("a")),
          n \in TriplesInRange(numberOfNormals("a")),
          t \in TriplesInRange(numberOfUvs("a")) :
            AddPointNormalUvFace("a", p, n, t)
    \/ \E tri \in TriangleVals : AddTriangle("a", tri)
    \/ \E i \in 0..(MaxFaces - 1) : Triangle("a", i)

SpecAppend == Init /\ [][NextAppend]_vars

(***************************************************************************)
(* SpecCache: the positions, the faces and the area cache of mesh "a"      *)
(* under appends, accessor writes, clear, computeAreaCache, clearAreaCache *)
(* and sample, with mesh "b" as the partner of set and swap.  No operation *)
(* here carries a JET_ASSERT, so the build type plays no role.             *)
(***************************************************************************)
CachePointVals == {PA, PB, PC}

\* The caller's vertex list: the point it appends to a mesh of k points.
VertexPool == <<PA, PB, PC, PD>>
NextPoint(m) == VertexPool[(numberOfPoints(m) % Len(VertexPool)) + 1]

InitRelease == Init /\ debug = FALSE

CacheTriangle ==
    [points |-> <<PA, PB, PC>>,
     normals |-> <<<<0, 0, 1>>, <<0, 0, 1>>, <<0, 0, 1>>>>,
     uvs |-> <<<<0, 0>>, <<1, 0>>, <<0, 0>>>>]

NextCache ==
    \/ AddPoint("a", NextPoint("a"))
    \/ \E p \in TriplesInRange(numberOfPoints("a")) : AddPointFace("a", p)
    \/ \E i \in 0..(MaxPoints - 1), v \in CachePointVals : SetPoint("a", i, v)
    \/ \E i \in 0..(MaxFaces - 1) :
          \E t \in TriplesInRange(numberOfPoints("a")) :
              SetPointIndex("a", i, t)
    \/ ComputeAreaCache("a")
    \/ ClearAreaCache("a")
    \/ \E u1 \in U1Vals : Sample("a", u1)
    \/ Clear("a")
    \/ AddTriangle("b", CacheTriangle)
    \/ ComputeAreaCache("b")
    \/ Set("a", "b")
    \/ Swap("a", "b")

SpecCache == InitRelease /\ [][NextCache]_vars

(***************************************************************************)
(* SpecBuild: one mesh grown by appends and whole triangles of different   *)
(* areas, with computeAreaCache, clearAreaCache and sample.                *)
(***************************************************************************)
BuildTriangles ==
    { [points |-> pts,
       normals |-> <<<<0, 0, 1>>, <<0, 0, 1>>, <<0, 0, 1>>>>,
       uvs |-> <<<<0, 0>>, <<1, 0>>, <<0, 0>>>>] :
          pts \in {<<PA, PB, PC>>, <<PA, PD, PC>>, <<PA, PB, PD>>} }

NextBuild ==
    \/ AddPoint("a", NextPoint("a"))
    \/ \E p \in TriplesInRange(numberOfPoints("a")) : AddPointFace("a", p)
    \/ \E tri \in BuildTriangles : AddTriangle("a", tri)
    \/ ComputeAreaCache("a")
    \/ ClearAreaCache("a")
    \/ \E u1 \in U1Vals : Sample("a", u1)

SpecBuild == InitRelease /\ [][NextBuild]_vars

(***************************************************************************)
(* SpecQuery: meshes made of whole triangles, queried by closestPoint and  *)
(* getClosestIntersection.                                                 *)
(***************************************************************************)
\* Three triangles: one at the origin, its copy moved by 8 along x, and its
\* copy raised by 2.
QueryTriangles ==
    { [points |-> pts,
       normals |-> <<<<0, 0, 1>>, <<0, 0, 1>>, <<0, 0, 1>>>>,
       uvs |-> <<<<0, 0>>, <<1, 0>>, <<0, 0>>>>] :
          pts \in {<<PA, PB, PC>>,
                   <<<<8, 0, 0>>, <<12, 0, 0>>, <<8, 4, 0>>>>,
                   <<<<0, 0, 2>>, <<4, 0, 2>>, <<0, 4, 2>>>>} }

QueryPoints == {<<0, 0, 1>>, <<6, 0, 0>>, <<6, 6, 0>>}
RayOrigins == {<<1, 1, 6>>, <<9, 1, 6>>, <<20, 20, 6>>}

NextQuery ==
    \/ \E tri \in QueryTriangles : AddTriangle("a", tri)
    \/ AddPoint("a", NextPoint("a"))
    \/ \E f \in TriplesInRange(numberOfPoints("a")) \ {<<0, 0, 0>>, <<1, 0, 0>>} :
          AddPointFace("a", f)
    \/ Clear("a")
    \/ \E p \in QueryPoints : ClosestPoint("a", p)
    \/ \E o \in RayOrigins : GetClosestIntersection("a", o)
    \/ NewIntersection

SpecQuery == InitRelease /\ [][NextQuery]_vars

(***************************************************************************)
(* SpecObj: mesh "a" is built by the append operations, written with       *)
(* writeObj, and the text is read back into mesh "b" with readObj.         *)
(***************************************************************************)
\* The caller's vertex list here holds a coordinate of seven digits.
ObjVertexPool == <<<<1234567, 0, 0>>, PB, PC>>
ObjNextPoint(m) == ObjVertexPool[(numberOfPoints(m) % Len(ObjVertexPool)) + 1]

\* Position and uv triples stay on element 0; normal triples vary.
NextObj ==
    \/ AddPoint("a", ObjNextPoint("a"))
    \/ AddNormal("a", <<0, 0, 1>>)
    \/ AddUv("a", <<1, 0>>)
    \/ \E p \in TriplesInRange(numberOfPoints("a")) \cap {<<0, 0, 0>>} :
          AddPointFace("a", p)
    \/ \E p \in TriplesInRange(numberOfPoints("a")) \cap {<<0, 0, 0>>},
          n \in TriplesInRange(numberOfNormals("a")) :
            AddPointNormalFace("a", p, n)
    \/ \E p \in TriplesInRange(numberOfPoints("a")) \cap {<<0, 0, 0>>},
          t \in TriplesInRange(numberOfUvs("a")) \cap {<<0, 0, 0>>} :
            AddPointUvFace("a", p, t)
    \/ \E p \in TriplesInRange(numberOfPoints("a")) \cap {<<0, 0, 0>>},
          n \in TriplesInRange(numberOfNormals("a")),
          t \in TriplesInRange(numberOfUvs("a")) \cap {<<0, 0, 0>>} :
            AddPointNormalUvFace("a", p, n, t)
    \/ WriteObj("a")
    \/ ReadObjBegin("b")
    \/ ReadObjStep
    \/ ReadObjEnd

SpecObj == Init /\ [][NextObj]_vars

(***************************************************************************)
(* SpecCopy: two meshes that are built, copied into each other by set,     *)
(* operator= and the copy constructor, and changed afterwards.             *)
(***************************************************************************)
NextCopy ==
    \/ \E m \in MeshIds : AddTriangle(m, CacheTriangle)
    \/ \E m \in MeshIds : AddPoint(m, NextPoint(m))
    \/ \E m \in MeshIds : ComputeAreaCache(m)
    \/ \E m \in MeshIds : ClearAreaCache(m)
    \/ \E m \in MeshIds : \E i \in 0..(MaxPoints - 1) : SetPoint(m, i, PD)
    \/ \E m \in MeshIds : Clear(m)
    \/ \E m \in MeshIds, o \in MeshIds : Set(m, o)
    \/ \E m \in MeshIds, o \in MeshIds : Assign(m, o)
    \/ \E m \in MeshIds, o \in MeshIds : CopyConstruct(m, o)
    \/ \E m \in MeshIds, o \in MeshIds : Swap(m, o)

SpecCopy == InitRelease /\ [][NextCopy]_vars

(***************************************************************************)
(* SpecGrow: every public operation that changes mesh "a", with the empty  *)
(* or once-filled mesh "b" as the partner of set and swap.  Normals are    *)
(* vectors of doubles here, as setFaceNormal computes them.                *)
(***************************************************************************)
UnitX == <<One, Zero, Zero>>

GrowTriangle ==
    [points |-> <<PA, PB, PC>>,
     normals |-> <<UnitX, UnitX, UnitX>>,
     uvs |-> <<<<0, 0>>, <<1, 0>>, <<0, 0>>>>]

\* The text the caller hands to readObj: one vertex and one face on it.
GrowText ==
    <<[kind |-> "v", toks |-> FormatVector(PB)],
      [kind |-> "f", refs |-> <<<<1>>, <<1>>, <<1>>>>]>>

\* The release build with the caller's stream open on GrowText.
InitGrow ==
    /\ mesh = [m \in MeshIds |-> EmptyMesh]
    /\ debug = FALSE
    /\ status = "ok"
    /\ last = NoOp
    /\ isect = NoHit
    /\ strm = GrowText
    /\ parse = NotParsing
    /\ used = [writes |-> 0, swaps |-> 0, reads |-> 0, transforms |-> 0]
    /\ par = NoJob

\* A run makes at most one of: a swap, a readObj, a transform.
NoExtraYet == used.swaps + used.reads + used.transforms = 0

GrowFaces(n) == TriplesInRange(n) \cap {<<0, 0, 0>>}

NextGrow ==
    \/ AddPoint("a", NextPoint("a"))
    \/ AddNormal("a", UnitX)
    \/ AddUv("a", <<1, 0>>)
    \/ \E p \in GrowFaces(numberOfPoints("a")) : AddPointFace("a", p)
    \/ \E p \in GrowFaces(numberOfPoints("a")),
          n \in GrowFaces(numberOfNormals("a")) :
            AddPointNormalFace("a", p, n)
    \/ \E p \in GrowFaces(numberOfPoints("a")),
          t \in GrowFaces(numberOfUvs("a")) :
            AddPointUvFace("a", p, t)
    \/ \E p \in GrowFaces(numberOfPoints("a")),
          n \in GrowFaces(numberOfNormals("a")),
          t \in GrowFaces(numberOfUvs("a")) :
            AddPointNormalUvFace("a", p, n, t)
    \/ numberOfPoints("a") = 0 /\ AddTriangle("a", GrowTriangle)
    \/ SetFaceNormal("a")
    \/ SetAngleWeightedVertexNormal("a")
    \/ NoExtraYet /\ Scale("a", 2)
    \/ NoExtraYet /\ Translate("a", <<1, 0, 0>>)
    \/ NoExtraYet /\ Rotate("a", "quarter turn about z")
    \/ \E i \in 0..MaxPoints : TaskLoad(i)
    \/ \E i \in 0..MaxPoints : TaskStore(i)
    \/ ParallelForJoin
    \/ NoExtraYet /\ Swap("a", "b")
    \/ NoExtraYet /\ ReadObjBegin("a")
    \/ ReadObjStep
    \/ ReadObjEnd
    \/ Clear("a")
    \/ Set("a", "b")

SpecGrow == InitGrow /\ [][NextGrow]_vars

(***************************************************************************)
(* SpecTransform: a mesh of points and normals under scale, translate and  *)
(* rotate, with the tasks of each parallelFor in every order.              *)
(***************************************************************************)
UnitY == <<Zero, One, Zero>>

NextTransform ==
    \/ AddPoint("a", NextPoint("a"))
    \/ \E n \in {UnitX, UnitY} : AddNormal("a", n)
    \/ Scale("a", 2)
    \/ Translate("a", <<1, 0, 0>>)
    \/ Rotate("a", "quarter turn about z")
    \/ \E i \in 0..MaxPoints : TaskLoad(i)
    \/ \E i \in 0..MaxPoints : TaskStore(i)
    \/ ParallelForJoin

SpecTransform == InitRelease /\ [][NextTransform]_vars

(***************************************************************************)
(* SpecNormals: a mesh of points in the plane z = 0, with faces that share *)
(* vertices, turn either way, or are degenerate, under setFaceNormal and   *)
(* setAngleWeightedVertexNormal.                                           *)
(***************************************************************************)
\* The third point makes a right triangle (PC) or lies on the line of the
\* first two (PD).
PointChoices(k) ==
    CASE k = 0 -> {PA}
      [] k = 1 -> {PB}
      [] k = 2 -> {PC, PD}
      [] OTHER -> {PA}

NormalsFaces == {<<0, 1, 2>>, <<0, 2, 1>>, <<1, 0, 0>>}

NextNormals ==
    \/ \E p \in PointChoices(numberOfPoints("a")) : AddPoint("a", p)
    \/ AddNormal("a", UnitX)
    \/ AddUv("a", <<1, 0>>)
    \/ \E f \in NormalsFaces :
          /\ \A j \in 1..3 : f[j] < numberOfPoints("a")
          /\ AddPointFace("a", f)
    \/ \E f \in NormalsFaces :
          /\ \A j \in 1..3 : f[j] < numberOfPoints("a")
          /\ numberOfUvs("a") > 0
          /\ AddPointUvFace("a", f, <<0, 0, 0>>)
    \/ SetFaceNormal("a")
    \/ SetAngleWeightedVertexNormal("a")

SpecNormals == InitRelease /\ [][NextNormals]_vars

(***************************************************************************)
(* SpecEmpty: a mesh that gains points and whole triangles and is cleared  *)
(* again, under the six scans over its faces.                              *)
(***************************************************************************)
NextEmpty ==
    \/ AddPoint("a", NextPoint("a"))
    \/ \E tri \in QueryTriangles :
          /\ tri.points[1][1] = 0
          /\ AddTriangle("a", tri)
    \/ Clear("a")
    \/ \E p \in {<<0, 0, 1>>, <<1, 1, 6>>} :
          \/ ClosestPoint("a", p)
          \/ ClosestDistance("a", p)
          \/ ActualClosestNormal("a", p)
          \/ Intersects("a", p)
    \/ Area("a")
    \/ Volume("a")

SpecEmpty == InitRelease /\ [][NextEmpty]_vars

(***************************************************************************)
(* Helpers of the properties.                                              *)
(***************************************************************************)
Max(x, y) == IF x > y THEN x ELSE y

\* The sum of the areas of faces 0 .. k-1 of m.
RECURSIVE SumOfAreas(_, _)
SumOfAreas(m, k) ==
    IF k = 0 THEN Zero
    ELSE DAdd(SumOfAreas(m, k - 1), TriArea(TrianglePoints(m, k - 1)))

TotalArea(m) == SumOfAreas(m, numberOfFaces(m))

\* The first 0-based position j with cache[j] >= u1, Len(cache) when none.
FirstAtLeast(cache, u1) ==
    LET hits == {j \in 0..(Len(cache) - 1) : DLeq(u1, cache[j + 1])}
    IN IF hits = {} THEN Len(cache)
       ELSE CHOOSE j \in hits : \A h \in hits : j <= h

(***************************************************************************)
(* C1.  In every state the append operations reach, a non-empty            *)
(* normalFaces has as many triples as positionFaces, and so has a          *)
(* non-empty uvFaces.                                                      *)
(***************************************************************************)
C1_FaceIndexLengthsAgree ==
    \A m \in MeshIds :
        /\ mesh[m].normalIndices # <<>> =>
               Len(mesh[m].normalIndices) = Len(mesh[m].pointIndices)
        /\ mesh[m].uvIndices # <<>> =>
               Len(mesh[m].uvIndices) = Len(mesh[m].pointIndices)

(***************************************************************************)
(* C4.  triangle(i) with i < numberOfFaces() reads normalFaces[i] only     *)
(* when normalFaces has more than i entries, and uvFaces[i] only when      *)
(* uvFaces has more than i entries.                                        *)
(***************************************************************************)
C4_TriangleReadsInRange ==
    last.op = "triangle" =>
        /\ last.readNormal => last.normalIndicesSize > last.i
        /\ last.readUv => last.uvIndicesSize > last.i

(***************************************************************************)
(* C2.  Whenever sample consults the area cache, the cache equals the      *)
(* table the build algorithm produces from the mesh's current faces.       *)
(***************************************************************************)
C2_SampleUsesFreshCache ==
    last.op = "sample" =>
        mesh[last.m].areaCache = BuiltAreaCache(last.m)

(***************************************************************************)
(* C7.  On a mesh with n >= 1 faces and positive total area, for u1 in     *)
(* [0, 1), sample selects k = max(0, j-1) with j the first cache position  *)
(* holding a value >= u1; k < n and cache[k] <= u1 <= cache[k+1].          *)
(***************************************************************************)
C7_SampleSelectsContainingInterval ==
    (/\ last.op = "sample"
     /\ numberOfFaces(last.m) >= 1
     /\ DLess(Zero, TotalArea(last.m))
     /\ DLeq(Zero, last.u1)
     /\ DLess(last.u1, One)) =>
        LET cache == mesh[last.m].areaCache
            j == FirstAtLeast(cache, last.u1)
            k == last.offset
        IN /\ k = Max(0, j - 1)
           /\ k < numberOfFaces(last.m)
           /\ DLeq(cache[k + 1], last.u1)
           /\ DLeq(last.u1, cache[k + 2])

(***************************************************************************)
(* C8.  After computeAreaCache, and after the build sample triggers, on a  *)
(* mesh of n faces the cache has n+1 entries and entry 0 is 0; when the    *)
(* total area is positive, entry i is the sum of the areas of faces        *)
(* 0..i-1 over the total, the entries do not decrease and the last is 1.   *)
(***************************************************************************)
JustBuilt ==
    /\ status = "ok"
    /\ \/ last.op = "computeAreaCache"
       \/ last.op = "sample" /\ last.rebuilt

C8_BuiltCacheIsNormalizedPrefixSums ==
    JustBuilt =>
        LET m == last.m
            n == numberOfFaces(m)
            cache == mesh[m].areaCache
            total == TotalArea(m)
        IN /\ Len(cache) = n + 1
           /\ cache[1] = Zero
           /\ DLess(Zero, total) =>
                 /\ \A i \in 1..n :
                       /\ cache[i + 1] = DDiv(SumOfAreas(m, i), total)
                       /\ DLeq(cache[i], cache[i + 1])
                 /\ cache[n + 1] = One

C8_Witness ==
    /\ JustBuilt
    /\ last.op = "computeAreaCache"
    /\ mesh[last.m].areaCache = <<Zero, <<1, 3>>, One>>

(***************************************************************************)
(* C5.  After getClosestIntersection(ray, out) on a mesh where no face     *)
(* intersects the ray, out.t is the no-hit sentinel, whatever out held     *)
(* before the call.                                                        *)
(***************************************************************************)
C5_NoHitLeavesSentinel ==
    (/\ status = "ok"
     /\ last.op = "getClosestIntersection"
     /\ ~AnyFaceIntersects(last.m, last.origin)) =>
        isect.t = MaxDouble

(***************************************************************************)
(* C6.  On a mesh with at least one face closestPoint(p) returns the       *)
(* per-face closest point of the lowest-indexed face among those whose     *)
(* per-face closest point is nearest to p, and no face has a per-face      *)
(* closest point strictly nearer to p than the returned point.             *)
(***************************************************************************)
FaceClosestPoint(m, i, p) == TriClosestPoint(TrianglePoints(m, i), p)
FaceDistSquared(m, i, p) == LengthSquared(Sub(p, FaceClosestPoint(m, i, p)))

\* The lowest-indexed face among the faces nearest to p.
FirstNearestFace(m, p) ==
    LET faces == 0..(numberOfFaces(m) - 1)
        nearest == {i \in faces : \A k \in faces :
                        FaceDistSquared(m, i, p) <= FaceDistSquared(m, k, p)}
    IN CHOOSE i \in nearest : \A k \in nearest : i <= k

ClosestPointReturned ==
    /\ status = "ok"
    /\ last.op = "closestPoint"
    /\ numberOfFaces(last.m) >= 1

C6_ClosestPointIsFirstMinimizer ==
    ClosestPointReturned =>
        /\ last.result =
               FaceClosestPoint(last.m, FirstNearestFace(last.m, last.p),
                                last.p)
        /\ \A i \in 0..(numberOfFaces(last.m) - 1) :
               FaceDistSquared(last.m, i, last.p) >=
                   LengthSquared(Sub(last.p, last.result))

\* Two faces tie at different points and the first one's point is returned.
C6_Witness ==
    /\ ClosestPointReturned
    /\ numberOfFaces(last.m) = 2
    /\ FaceDistSquared(last.m, 0, last.p) = FaceDistSquared(last.m, 1, last.p)
    /\ FaceClosestPoint(last.m, 0, last.p) # FaceClosestPoint(last.m, 1, last.p)
    /\ last.result = FaceClosestPoint(last.m, 0, last.p)


(***************************************************************************)
(* Properties of writeObj and readObj.                                     *)
(***************************************************************************)
IndicesBelow(array, n) ==
    \A k \in 1..Len(array) : \A j \in 1..3 : array[k][j] \in 0..(n - 1)

\* The data-model invariants a mesh is expected to satisfy.
DataModelValid(m) ==
    /\ IndicesBelow(mesh[m].pointIndices, numberOfPoints(m))
    /\ IndicesBelow(mesh[m].normalIndices, numberOfNormals(m))
    /\ IndicesBelow(mesh[m].uvIndices, numberOfUvs(m))
    /\ Len(mesh[m].normalIndices) \in {0, numberOfFaces(m)}
    /\ Len(mesh[m].uvIndices) \in {0, numberOfFaces(m)}
    /\ AllTrianglesDefined(m)

\* b has just been read, from empty, out of the text writeObj gives for a.
ReadBack ==
    /\ last.op = "readObj"
    /\ last.m = "b"
    /\ parse.fresh
    /\ \E g \in GarbageIndices : strm = ObjText("a", g)

\* Equal up to the rounding of the text: a relative error below 10^-5.
WithinTolerance(v, w) ==
    /\ Len(v) = Len(w)
    /\ \A j \in 1..Len(v) : Abs(v[j] - w[j]) <= Abs(v[j]) \div 100000

SameValues(vs, ws) ==
    /\ Len(vs) = Len(ws)
    /\ \A k \in 1..Len(vs) : WithinTolerance(vs[k], ws[k])

\* C3: writing a mesh that satisfies the data-model invariants with writeObj
\* and reading the text into a fresh mesh with readObj gives a mesh with the
\* same numbers of points, normals, uvs and faces, the same values up to the
\* rounding of the text, and the same position, normal and uv index triples.
C3_RoundTripPreservesMesh ==
    (ReadBack /\ DataModelValid("a")) =>
        /\ SameValues(mesh["a"].points, mesh["b"].points)
        /\ SameValues(mesh["a"].normals, mesh["b"].normals)
        /\ SameValues(mesh["a"].uvs, mesh["b"].uvs)
        /\ mesh["b"].pointIndices = mesh["a"].pointIndices
        /\ mesh["b"].normalIndices = mesh["a"].normalIndices
        /\ mesh["b"].uvIndices = mesh["a"].uvIndices

\* The step of readObj that handles a triangular face line, when the
\* callback runs to its end.
FaceEvent ==
    /\ parse.active
    /\ status = "ok"
    /\ parse.pos <= Len(strm)
    /\ strm[parse.pos].kind = "f"
    /\ parse'.pos = parse.pos + 1
    /\ status' = "ok"

\* C9: during readObj, every triangular face event appends exactly one triple
\* to the position faces, appends the event's texture-vertex indices to the uv
\* faces and its vertex-normal indices to the normal faces, each only when the
\* event carries that kind, with every index decremented by one.
C9_FaceEventAppendsItsIndices ==
    [][FaceEvent =>
        LET refs == strm[parse.pos].refs
            shape == FaceShape(refs)
            before == mesh[parse.m]
            after == mesh'[parse.m]
        IN /\ after.pointIndices
                 = Append(before.pointIndices, RefField(refs, 1))
           /\ after.uvIndices
                 = IF shape \in {"v/vt", "v/vt/vn"}
                   THEN Append(before.uvIndices, RefField(refs, 2))
                   ELSE before.uvIndices
           /\ after.normalIndices
                 = IF shape \in {"v//vn", "v/vt/vn"}
                   THEN Append(before.normalIndices, RefField(refs, 3))
                   ELSE before.normalIndices]_vars


(***************************************************************************)
(* Properties of set, operator= and the copy constructor.                  *)
(***************************************************************************)
CopyOps == {"set", "operator=", "TriangleMesh3"}

OtherMesh(m) == CHOOSE o \in MeshIds : o # m

\* C10: after a.set(b), and likewise after assignment and copy construction,
\* each of a's six attribute and face-index sequences and a's area cache
\* equals b's and b is unchanged; and every later operation on one mesh
\* (anything but swap, which exchanges the two) leaves the other mesh as it
\* was: the copy shares no storage.
C10_SetIsDeepCopy ==
    [][/\ last'.op \in CopyOps =>
            /\ mesh'[last'.m] = mesh[last'.other]
            /\ mesh'[last'.other] = mesh[last'.other]
       /\ last'.op \notin (CopyOps \cup {"swap"}) =>
            mesh'[OtherMesh(last'.m)] = mesh[OtherMesh(last'.m)]]_vars

\* A mesh with faces and an area cache has been copied over a different mesh.
C10_Witness ==
    /\ last.op \in CopyOps
    /\ last.m # last.other
    /\ last.before.areaCache # <<>>
    /\ last.before.pointIndices # <<>>
    /\ mesh[last.m] = last.before
    /\ mesh[last.other] = last.before


(***************************************************************************)
(* Growth of the sequences.                                                *)
(***************************************************************************)
SequenceNames ==
    {"points", "normals", "uvs", "pointIndices", "normalIndices", "uvIndices"}

\* The six lengths of m, as a function of the sequence's name.
Lengths(me) ==
    [s \in SequenceNames |->
        CASE s = "points" -> Len(me.points)
          [] s = "normals" -> Len(me.normals)
          [] s = "uvs" -> Len(me.uvs)
          [] s = "pointIndices" -> Len(me.pointIndices)
          [] s = "normalIndices" -> Len(me.normalIndices)
          [] s = "uvIndices" -> Len(me.uvIndices)]

\* C11: across the public operations other than clear and set (appends,
\* addTriangle, setFaceNormal, setAngleWeightedVertexNormal, scale, translate,
\* rotate, swap, readObj) the length of none of the six attribute and
\* face-index sequences of a mesh ever decreases.
C11_LengthsNeverDecrease ==
    [][last'.op \notin {"clear", "set"} =>
          \A m \in MeshIds : \A s \in SequenceNames :
              Lengths(mesh'[m])[s] >= Lengths(mesh[m])[s]]_vars

NormalOps == {"setFaceNormal", "setAngleWeightedVertexNormal"}

\* C11, amended: across the operations other than clear, set and swap no
\* length of a mesh decreases, except that setFaceNormal and
\* setAngleWeightedVertexNormal make the number of normals of their mesh the
\* number of its points, which is fewer when there were more normals than
\* points; swap exchanges the lengths of the two meshes.
C11_LengthsDecreaseOnlyByResize ==
    [][/\ last'.op \notin {"clear", "set", "swap"} =>
            \A m \in MeshIds : \A s \in SequenceNames :
                \/ Lengths(mesh'[m])[s] >= Lengths(mesh[m])[s]
                \/ /\ last'.op \in NormalOps
                   /\ m = last'.m
                   /\ s = "normals"
                   /\ Len(mesh'[m].normals) = Len(mesh[m].points)
       /\ last'.op = "swap" =>
            /\ Lengths(mesh'["a"]) = Lengths(mesh["b"])
            /\ Lengths(mesh'["b"]) = Lengths(mesh["a"])]_vars

\* setFaceNormal or setAngleWeightedVertexNormal has just run on a mesh that
\* had faces and more normals than points.
C11_Witness ==
    /\ last.op \in NormalOps
    /\ status = "ok"
    /\ mesh[last.m].pointIndices # <<>>
    /\ last.normalsBefore > Len(mesh[last.m].points)
    /\ Len(mesh[last.m].normals) = Len(mesh[last.m].points)
    /\ Len(mesh[last.m].normalIndices) = Len(mesh[last.m].pointIndices)


(***************************************************************************)
(* The parallel transforms.                                                *)
(***************************************************************************)
TransformOps == {"scale", "translate", "rotate"}

\* The accesses of a parallelFor over n elements in which every task reads
\* and then writes its own element, once.
OwnAccesses(n, phase) ==
    UNION { { [task |-> k, element |-> k, kind |-> "read", phase |-> phase,
               nth |-> 0],
              [task |-> k, element |-> k, kind |-> "write", phase |-> phase,
               nth |-> 1] } : k \in 0..(n - 1) }

\* The array with the transform applied to the elements one after another.
Sequentially(op, arg, phase, array) ==
    [k \in 1..Len(array) |-> Transformed(op, arg, phase, array[k])]

\* C12: for scale, translate and rotate, under every order and interleaving
\* of the tasks, no task reads or writes the element of another index and no
\* element is written twice; when the call has returned every task has run:
\* each position (and for rotate each normal) was read and written exactly
\* once, by the task of its own index, and the mesh equals the result of
\* running the indices one after another, with nothing else changed.
C12_TasksTouchOwnElementOnly ==
    /\ par.active =>
          \A a \in par.accesses : a.element = a.task /\ a.nth <= 1
    /\ (last.op \in TransformOps /\ last.returned) =>
          LET me == mesh[last.m]
              rotates == last.op = "rotate"
          IN /\ ~par.active
             /\ me.points = Sequentially(last.op, last.arg, "points",
                                         last.before.points)
             /\ me.normals = IF rotates
                             THEN Sequentially(last.op, last.arg, "normals",
                                               last.before.normals)
                             ELSE last.before.normals
             /\ last.accesses =
                   OwnAccesses(Len(last.before.points), "points")
                   \cup (IF rotates
                         THEN OwnAccesses(Len(last.before.normals), "normals")
                         ELSE {})
             /\ [me EXCEPT !.points = <<>>, !.normals = <<>>]
                   = [last.before EXCEPT !.points = <<>>, !.normals = <<>>]

\* rotate has returned on a mesh of several points and normals, all moved.
C12_Witness ==
    /\ last.op = "rotate"
    /\ last.returned
    /\ Len(last.before.points) >= 3
    /\ Len(last.before.normals) >= 2
    /\ \A k \in 2..3 : mesh[last.m].points[k] # last.before.points[k]
    /\ \A k \in 1..2 : mesh[last.m].normals[k] # last.before.normals[k]


(***************************************************************************)
(* Properties of setFaceNormal and setAngleWeightedVertexNormal.           *)
(***************************************************************************)
\* The faces of `me` that reference vertex v.
FacesAt(me, v) ==
    {i \in 0..(Len(me.pointIndices) - 1) :
        \E j \in 1..3 : me.pointIndices[i + 1][j] = v}

HighestFaceAt(me, v) ==
    CHOOSE i \in FacesAt(me, v) : \A k \in FacesAt(me, v) : k <= i

FacePoints(me, i) ==
    LET f == me.pointIndices[i + 1]
    IN <<me.points[f[1] + 1], me.points[f[2] + 1], me.points[f[3] + 1]>>

\* C13: after setFaceNormal has returned on a mesh with in-range position
\* indices, numberOfNormals() equals numberOfPoints(), the normal faces equal
\* the position faces triple for triple, and the normal of every vertex that
\* some face references is the flat face normal of the highest-indexed face
\* that references it.
C13_FaceNormalLastWriterWins ==
    (last.op = "setFaceNormal" /\ status = "ok") =>
        LET me == mesh[last.m]
        IN /\ Len(me.normals) = Len(me.points)
           /\ me.normalIndices = me.pointIndices
           /\ \A v \in 0..(Len(me.points) - 1) :
                 FacesAt(me, v) # {} =>
                    me.normals[v + 1]
                       = FaceNormal(FacePoints(me, HighestFaceAt(me, v)))

\* setFaceNormal has run on two faces that share their vertices and face
\* opposite ways, the later one downward.
C13_Witness ==
    /\ last.op = "setFaceNormal"
    /\ status = "ok"
    /\ mesh[last.m].pointIndices = <<<<0, 1, 2>>, <<0, 2, 1>>>>
    /\ mesh[last.m].points = <<PA, PB, PC>>
    /\ mesh[last.m].normals[1] = <<Zero, Zero, <<-1, 1>>>>
    /\ last.normalsBefore < 3


\* C14: after setAngleWeightedVertexNormal, whatever normals and normal
\* faces the mesh held before, numberOfNormals() equals numberOfPoints(), the
\* normal faces equal the position faces triple for triple, every vertex
\* whose accumulated angle sum is zero has the zero vector as normal, and
\* positions, uvs, position faces and uv faces are unchanged.
C14_ZeroAngleSumLeavesZeroNormal ==
    [][last'.op = "setAngleWeightedVertexNormal" =>
          LET old == mesh[last'.m]
              me == mesh'[last'.m]
          IN /\ Len(me.normals) = Len(me.points)
             /\ me.normalIndices = me.pointIndices
             /\ \A v \in 1..Len(old.points) :
                   AngleWeights(old)[v] = Zero => me.normals[v] = ZeroVec
             /\ me.points = old.points
             /\ me.uvs = old.uvs
             /\ me.pointIndices = old.pointIndices
             /\ me.uvIndices = old.uvIndices]_vars


(***************************************************************************)
(* The assertions of the face appends.  A failed assertion leaves the mesh *)
(* as it was before the call.                                              *)
(***************************************************************************)
NormalTriplesDiffer(me) == Len(me.normalIndices) # Len(me.pointIndices)

UvTriplesDiffer(me) == Len(me.uvIndices) # Len(me.pointIndices)

\* C15: the assertions of addPointNormalFace, addPointUvFace and
\* addPointNormalUvFace fail only when the number of normal or uv index
\* triples differs from the number of position index triples; on a mesh
\* whose per-face index arrays are consistent they hold, whatever number of
\* points, normals and uvs has been appended.
C15_AssertsFailOnlyOnInconsistentFaces ==
    status = "assert" =>
        LET me == mesh[last.m]
        IN /\ last.op = "addPointNormalFace" => NormalTriplesDiffer(me)
           /\ last.op = "addPointUvFace" => UvTriplesDiffer(me)
           /\ last.op = "addPointNormalUvFace" =>
                 NormalTriplesDiffer(me) \/ UvTriplesDiffer(me)


\* C16: on a mesh of positive total area, for every u1 in [0, 1), u1 = 0
\* included, the face sample selects has strictly positive area, wherever
\* the zero-area faces sit in the face order.
C16_SampleNeverSelectsZeroAreaFace ==
    (/\ last.op = "sample"
     /\ status = "ok"
     /\ DLess(Zero, TotalArea(last.m))
     /\ DLeq(Zero, last.u1)
     /\ DLess(last.u1, One)) =>
        /\ last.offset < numberOfFaces(last.m)
        /\ DLess(Zero, TriArea(TrianglePoints(last.m, last.offset)))


(***************************************************************************)
(* The scans on a mesh without faces.                                      *)
(***************************************************************************)
\* C17: on a mesh with zero faces the queries return fixed defaults and
\* materialize no triangle: closestPoint returns the point whose three
\* coordinates are the maximum double, closestDistance the maximum double,
\* actualClosestNormal (1,0,0), intersects false, area and volume 0.
C17_EmptyMeshDefaults ==
    numberOfFaces(last.m) = 0 =>
        /\ last.op = "closestPoint" =>
              /\ status = "ok"
              /\ last.result = <<MaxDouble, MaxDouble, MaxDouble>>
        /\ last.op = "closestDistance" =>
              /\ status = "ok"
              /\ last.result = MaxDouble
              /\ last.triangles = 0
        /\ last.op = "actualClosestNormal" =>
              /\ status = "ok"
              /\ last.result = <<1, 0, 0>>
              /\ last.triangles = 0
        /\ last.op = "intersects" =>
              /\ status = "ok"
              /\ last.result = FALSE
              /\ last.triangles = 0
        /\ last.op \in {"area", "volume"} =>
              /\ status = "ok"
              /\ last.result = Zero
              /\ last.triangles = 0

\* actualClosestNormal has run on a mesh that holds points but no face.
C17_Witness ==
    /\ last.op = "actualClosestNormal"
    /\ status = "ok"
    /\ numberOfFaces(last.m) = 0
    /\ numberOfPoints(last.m) > 0
    /\ last.result = <<1, 0, 0>>

====
